---- MODULE Spec2Model ----
(***************************************************************************)
(* The AVM1 object contract of core/src/avm1/object.rs: property look-up   *)
(* through the prototype chain (TObject::get, search_prototype), the       *)
(* chain-membership test (TObject::is_prototype_of), and the contracts of  *)
(* delete and of the array view over an object.                            *)
(***************************************************************************)
EXTENDS Integers, Sequences, FiniteSets, TLC

VARIABLES
    proto,    \* proto[o]: the `__proto__` link of object o, or None
    slots,    \* slots[o]: the own named properties of object o (name -> slot)
    length,   \* array view of object 1: its length
    array,    \* array view of object 1: array storage (index -> Value)
    pc,       \* where the running call stands: "idle" or the loop it is in
    frame,    \* the locals of the running loop
    result    \* the outcome of the last completed call

vars == <<proto, slots, length, array, pc, frame, result>>

-----------------------------------------------------------------------------
(* Bounds of the model *)

\* Short chains range over 1..SmallChain objects.
SmallChain == 3
\* Long chains range over MaxDepth + 1 .. MaxDepth + Margin objects.
Margin == 2
\* Array indices and lengths range over 0..MaxLen.
MaxLen == 4

(* Program constants *)

\* search_prototype gives up when its depth counter equals this.
MaxDepth == 255
\* Option::None of a prototype link; objects are 1, 2, ...
None == 0

LongChain == MaxDepth + Margin

Names == {"p", "q"}

-----------------------------------------------------------------------------
(* Values, results and property slots *)

Undefined == [t |-> "Undefined"]
Number(k) == [t |-> "Number", v |-> k]
String(s) == [t |-> "String", v |-> s]

\* ReturnValue::Immediate(v) and ReturnValue::ResultOf(a called executable)
Immediate(v) == [rv |-> "Immediate", value |-> v]
ResultOf(exec, this) == [rv |-> "ResultOf", exec |-> exec, this |-> this]

Ok(v) == [ok |-> TRUE, value |-> v]
Err(msg) == [ok |-> FALSE, error |-> msg]

DepthError == Err("Encountered an excessively deep prototype chain.")

Hidden == "DontEnum"
Permanent == "DontDelete"
ReadOnly == "ReadOnly"
Attributes == {Hidden, Permanent, ReadOnly}

Stored(v, attrs) == [kind |-> "Stored", value |-> v, attributes |-> attrs]
Virtual(getter, attrs) ==
    [kind |-> "Virtual", get |-> getter, attributes |-> attrs]

Objects == DOMAIN proto

as_ptr(o) == o

ptr_eq(a, b) == as_ptr(a) = as_ptr(b)

has_own_property(o, name) == name \in DOMAIN slots[o]

\* An own read: a stored slot yields its value, a virtual slot the result of
\* its getter run with the `this` it was handed.
get_local(o, name, this) ==
    IF ~has_own_property(o, name) THEN Ok(Immediate(Undefined))
    ELSE IF slots[o][name].kind = "Stored"
         THEN Ok(Immediate(slots[o][name].value))
         ELSE Ok(ResultOf(slots[o][name].get, this))

-----------------------------------------------------------------------------
(* TObject::get and search_prototype *)

NoResult == [op |-> "none"]
NoFrame == [op |-> "none"]

\* What a finished get leaves: the branch taken ("own" or "search"), its
\* return value, the object get_local was
\* invoked on (None when it was not invoked), the `this` it was handed, and
\* the depth counter at the return.
GetResult(this, name, path, ret, holder, thisArg, depth) ==
    [op |-> "get", this |-> this, name |-> name, path |-> path, ret |-> ret,
     holder |-> holder, thisArg |-> thisArg, depth |-> depth]

get(self, name) ==
    /\ pc = "idle"
    /\ IF has_own_property(self, name)
       THEN /\ result' = GetResult(self, name, "own",
                                   get_local(self, name, self), self, self, 0)
            /\ UNCHANGED <<pc, frame>>
       ELSE /\ pc' = "search_prototype"
            /\ frame' = [op |-> "search_prototype", this |-> self,
                         name |-> name, proto |-> proto[self], depth |-> 0]
            /\ result' = NoResult
    /\ UNCHANGED <<proto, slots, length, array>>

\* The depth test one step late, and one step early.
DepthExceeded_late(depth) == depth = MaxDepth + 1
DepthExceeded_early(depth) == depth = MaxDepth - 1

\* The depth counter has reached the limit (checked at the top of each pass).
DepthExceeded(depth) == depth = MaxDepth

\* search_prototype handing the ancestor itself to get_local as `this`.
search_step_this_ancestor(p, name, this, depth) ==
    IF p = None
    THEN [done |-> TRUE, ret |-> Ok(Immediate(Undefined)),
          holder |-> None, thisArg |-> None]
    ELSE IF DepthExceeded(depth)
    THEN [done |-> TRUE, ret |-> DepthError, holder |-> None, thisArg |-> None]
    ELSE IF has_own_property(p, name)
    THEN [done |-> TRUE, ret |-> get_local(p, name, p),
          holder |-> p, thisArg |-> p]
    ELSE [done |-> FALSE, proto |-> proto[p], depth |-> depth + 1]

\* search_prototype testing ownership before the depth.
search_step_own_first(p, name, this, depth) ==
    IF p = None
    THEN [done |-> TRUE, ret |-> Ok(Immediate(Undefined)),
          holder |-> None, thisArg |-> None]
    ELSE IF has_own_property(p, name)
    THEN [done |-> TRUE, ret |-> get_local(p, name, this),
          holder |-> p, thisArg |-> this]
    ELSE IF DepthExceeded(depth)
    THEN [done |-> TRUE, ret |-> DepthError, holder |-> None, thisArg |-> None]
    ELSE [done |-> FALSE, proto |-> proto[p], depth |-> depth + 1]

\* One pass of the `while proto.is_some()` loop over the locals: either the
\* return (ret, the object get_local was invoked on, the `this` handed to
\* it) or the next values of `proto` and `depth`.
search_step(p, name, this, depth) ==
    IF p = None
    THEN [done |-> TRUE, ret |-> Ok(Immediate(Undefined)),
          holder |-> None, thisArg |-> None]
    ELSE IF DepthExceeded(depth)
    THEN [done |-> TRUE, ret |-> DepthError, holder |-> None, thisArg |-> None]
    ELSE IF has_own_property(p, name)
    THEN [done |-> TRUE, ret |-> get_local(p, name, this),
          holder |-> p, thisArg |-> this]
    ELSE [done |-> FALSE, proto |-> proto[p], depth |-> depth + 1]

search_prototype ==
    /\ pc = "search_prototype"
    /\ LET s == search_step(frame.proto, frame.name, frame.this, frame.depth)
       IN  IF s.done
           THEN /\ result' = GetResult(frame.this, frame.name, "search", s.ret,
                                       s.holder, s.thisArg, frame.depth)
                /\ pc' = "idle"
                /\ frame' = NoFrame
           ELSE /\ frame' = [frame EXCEPT !.proto = s.proto, !.depth = s.depth]
                /\ UNCHANGED <<pc, result>>
    /\ UNCHANGED <<proto, slots, length, array>>

-----------------------------------------------------------------------------
(* TObject::is_prototype_of *)

\* is_prototype_of starting its walk at `other` itself.
is_prototype_of_from_other(self, other) ==
    /\ pc = "idle"
    /\ pc' = "is_prototype_of"
    /\ frame' = [op |-> "is_prototype_of", self |-> self, other |-> other,
                 proto |-> other]
    /\ result' = NoResult
    /\ UNCHANGED <<proto, slots, length, array>>

is_prototype_of(self, other) ==
    /\ pc = "idle"
    /\ pc' = "is_prototype_of"
    /\ frame' = [op |-> "is_prototype_of", self |-> self, other |-> other,
                 proto |-> proto[other]]
    /\ result' = NoResult
    /\ UNCHANGED <<proto, slots, length, array>>

\* The head of the `while let Some(proto_ob) = proto` loop and the identity
\* test of its body.
is_prototype_of_loop ==
    /\ pc = "is_prototype_of"
    /\ LET p == frame.proto
           finish(b) ==
               /\ result' = [op |-> "is_prototype_of", self |-> frame.self,
                             other |-> frame.other, value |-> b]
               /\ pc' = "idle"
               /\ frame' = NoFrame
       IN  IF p = None
           THEN finish(FALSE)
           ELSE IF as_ptr(frame.self) = as_ptr(p)
           THEN finish(TRUE)
           ELSE /\ pc' = "is_prototype_of_advance"
                /\ UNCHANGED <<frame, result>>
    /\ UNCHANGED <<proto, slots, length, array>>

\* The end of the loop body: `proto = proto_ob.proto()`.
is_prototype_of_advance ==
    /\ pc = "is_prototype_of_advance"
    /\ pc' = "is_prototype_of"
    /\ frame' = [frame EXCEPT !.proto = proto[frame.proto]]
    /\ UNCHANGED <<proto, slots, length, array, result>>

-----------------------------------------------------------------------------
(* The prototype graphs looked at: a chain 1 -> 2 -> ... -> n whose last    *)
(* object has no prototype, or links back to itself, to object 1 or to     *)
(* object 2 (a cycle that leaves object 1 out).                            *)

ChainLengths == (1..SmallChain) \cup ((MaxDepth + 1)..LongChain)

\* The links the last object of a chain may have.
Tails(n) == {None, 1, 2, n} \cap (0..n)

\* The objects that may carry properties, and the objects queried.
Owners(n) == {1, 2, n - 1, n} \cap (1..n)
Probes(n) == {1, 2, n} \cap (1..n)

\* Object o owns "p" as a virtual property when o is in S, and "q" as a
\* stored one when it is an owner outside S.
OwnSlots(o, n, S) ==
    IF o \in S THEN [x \in {"p"} |-> Virtual(o, {})]
    ELSE IF o \in Owners(n) THEN [x \in {"q"} |-> Stored(Number(o), {})]
    ELSE [x \in {} |-> Undefined]

Idle ==
    /\ pc = "idle"
    /\ frame = NoFrame
    /\ result = NoResult

NoArray ==
    /\ length = 0
    /\ array = <<>>

Graph(n, tail, S) ==
    /\ proto = [o \in 1..n |-> IF o < n THEN o + 1 ELSE tail]
    /\ slots = [o \in 1..n |-> OwnSlots(o, n, S)]

Init ==
    /\ \E n \in ChainLengths:
       \E tail \in Tails(n), S \in SUBSET Owners(n): Graph(n, tail, S)
    /\ NoArray
    /\ Idle

Queried == Probes(Cardinality(Objects))

Next ==
    \/ \E o \in Queried, name \in Names: get(o, name)
    \/ search_prototype

\* Property look-up over the prototype graphs.
Spec == Init /\ [][Next]_vars

\* The graphs alone: "q" on every owner, "p" on no object.
InitLinks ==
    /\ \E n \in ChainLengths:
       \E tail \in Tails(n): Graph(n, tail, {})
    /\ NoArray
    /\ Idle

NextTraversal ==
    \/ \E o \in Queried, name \in Names: get(o, name)
    \/ search_prototype
    \/ \E a \in Queried, b \in Queried: is_prototype_of(a, b)
    \/ is_prototype_of_loop
    \/ is_prototype_of_advance

\* Both traversals of the prototype graph. A loop runs to its next pass
\* whenever it can: the interpreter is single-threaded and nothing preempts
\* a running call.
TraversalSpec ==
    /\ InitLinks
    /\ [][NextTraversal]_vars
    /\ WF_vars(search_prototype)
    /\ WF_vars(is_prototype_of_loop)
    /\ WF_vars(is_prototype_of_advance)

-----------------------------------------------------------------------------
(* Named-property storage of one object: define_value, add_property, delete *)

\* The object the property and array operations below act on.
Self == 1

Put(f, name, slot) ==
    [x \in DOMAIN f \cup {name} |-> IF x = name THEN slot ELSE f[x]]

Remove(f, names) == [x \in DOMAIN f \ names |-> f[x]]

define_value(name, value, attributes) ==
    /\ pc = "idle"
    /\ slots' = [slots EXCEPT ![Self] = Put(@, name, Stored(value, attributes))]
    /\ result' = [op |-> "define_value", name |-> name]
    /\ UNCHANGED <<proto, length, array, pc, frame>>

add_property(name, getter, attributes) ==
    /\ pc = "idle"
    /\ slots' = [slots EXCEPT ![Self] = Put(@, name, Virtual(getter, attributes))]
    /\ result' = [op |-> "add_property", name |-> name]
    /\ UNCHANGED <<proto, length, array, pc, frame>>

\* can_delete overlooking the Permanent attribute.
can_delete_any(name) == has_own_property(Self, name)

\* The property can be deleted: it is there and not Permanent.
can_delete(name) ==
    /\ has_own_property(Self, name)
    /\ Permanent \notin slots[Self][name].attributes

delete(name) ==
    /\ pc = "idle"
    /\ IF can_delete(name)
       THEN /\ slots' = [slots EXCEPT ![Self] = Remove(@, {name})]
            /\ result' = [op |-> "delete", name |-> name, ret |-> TRUE]
       ELSE /\ UNCHANGED slots
            /\ result' = [op |-> "delete", name |-> name, ret |-> FALSE]
    /\ UNCHANGED <<proto, length, array, pc, frame>>

PropValues == {Number(1), String("a")}

InitObject ==
    /\ proto = <<None>>
    /\ slots = << <<>> >>
    /\ NoArray
    /\ Idle

NextProps ==
    \/ \E name \in Names, v \in PropValues, attrs \in SUBSET Attributes:
          define_value(name, v, attrs)
    \/ \E name \in Names, attrs \in SUBSET Attributes:
          add_property(name, "getter", attrs)
    \/ \E name \in Names: delete(name)
    \/ \E name \in Names: get(Self, name)
    \/ search_prototype

\* One object, its named properties defined, deleted and read.
PropsSpec == InitObject /\ [][NextProps]_vars

-----------------------------------------------------------------------------
(* The array view of one object *)

Digit(d) ==
    CASE d = 0 -> "0" [] d = 1 -> "1" [] d = 2 -> "2" [] d = 3 -> "3"
      [] d = 4 -> "4" [] d = 5 -> "5" [] d = 6 -> "6" [] d = 7 -> "7"
      [] d = 8 -> "8" [] d = 9 -> "9"

\* index.to_string(): the decimal name of an array index.
RECURSIVE IndexName(_)
IndexName(i) ==
    IF i < 10 THEN Digit(i) ELSE IndexName(i \div 10) \o Digit(i % 10)

get_length == length

get_array_element(i) == IF i \in DOMAIN array THEN array[i] ELSE Undefined

\* Array storage a with the indices of I set to v, and named storage f with
\* their names set to stored, enumerable slots holding v.
Fill(a, I, v) == [i \in DOMAIN a \cup I |-> IF i \in I THEN v ELSE a[i]]
FillNamed(f, I, v) ==
    LET names == {IndexName(i) : i \in I}
    IN  [x \in DOMAIN f \cup names |-> IF x \in names THEN Stored(v, {}) ELSE f[x]]

set_length(new_length) ==
    /\ pc = "idle"
    /\ IF new_length >= length
       THEN LET gap == length..(new_length - 1)
            IN  /\ array' = Fill(array, gap, Undefined)
                /\ slots' = [slots EXCEPT ![Self] = FillNamed(@, gap, Undefined)]
       ELSE LET cut == new_length..(length - 1)
            IN  /\ array' = [i \in DOMAIN array \ cut |-> array[i]]
                /\ slots' = [slots EXCEPT
                               ![Self] = Remove(@, {IndexName(i) : i \in cut})]
    /\ length' = new_length
    /\ result' = [op |-> "set_length", index |-> new_length, old |-> length]
    /\ UNCHANGED <<proto, pc, frame>>

\* set_array_element leaving the gap out of the named properties.
set_array_element_nogap(index, value) ==
    /\ pc = "idle"
    /\ LET gap == length..(index - 1)
           new_length == IF index >= length THEN index + 1 ELSE length
       IN  /\ array' = Fill(Fill(array, gap, Undefined), {index}, value)
           /\ slots' = [slots EXCEPT ![Self] = FillNamed(@, {index}, value)]
           /\ length' = new_length
           /\ result' = [op |-> "set_array_element", index |-> index,
                         value |-> value, old |-> length, ret |-> new_length]
    /\ UNCHANGED <<proto, pc, frame>>

set_array_element(index, value) ==
    /\ pc = "idle"
    /\ LET gap == length..(index - 1)
           new_length == IF index >= length THEN index + 1 ELSE length
       IN  /\ array' = Fill(Fill(array, gap, Undefined), {index}, value)
           /\ slots' = [slots EXCEPT
                          ![Self] = FillNamed(FillNamed(@, gap, Undefined),
                                              {index}, value)]
           /\ length' = new_length
           /\ result' = [op |-> "set_array_element", index |-> index,
                         value |-> value, old |-> length, ret |-> new_length]
    /\ UNCHANGED <<proto, pc, frame>>

\* delete_array_element taking the index out of the named properties too.
delete_array_element_both(index) ==
    /\ pc = "idle"
    /\ array' = [i \in DOMAIN array \ {index} |-> array[i]]
    /\ slots' = [slots EXCEPT ![Self] = Remove(@, {IndexName(index)})]
    /\ result' = [op |-> "delete_array_element", index |-> index, old |-> length]
    /\ UNCHANGED <<proto, length, pc, frame>>

\* delete_array_element closing the hole, as Vec::remove does.
delete_array_element_shift(index) ==
    /\ pc = "idle"
    /\ array' = [i \in {k \in 0..(length - 2) :
                          IF k < index THEN k \in DOMAIN array
                                       ELSE k + 1 \in DOMAIN array}
                   |-> IF i < index THEN array[i] ELSE array[i + 1]]
    /\ result' = [op |-> "delete_array_element", index |-> index, old |-> length]
    /\ UNCHANGED <<proto, slots, length, pc, frame>>

\* The array loses index `index`; nothing is rearranged, the length stays,
\* and the named-property storage is not touched.
delete_array_element(index) ==
    /\ pc = "idle"
    /\ array' = [i \in DOMAIN array \ {index} |-> array[i]]
    /\ result' = [op |-> "delete_array_element", index |-> index, old |-> length]
    /\ UNCHANGED <<proto, slots, length, pc, frame>>

ArrayValues == {Undefined, String("a"), String("b")}

NextArray ==
    \/ \E n \in 0..MaxLen: set_length(n)
    \/ \E i \in 0..(MaxLen - 1), v \in ArrayValues: set_array_element(i, v)
    \/ \E i \in 0..(MaxLen - 1): delete_array_element(i)

\* One object, its array view mutated.
ArraySpec == InitObject /\ [][NextArray]_vars

-----------------------------------------------------------------------------
(* The ancestors of an object, taken from the links alone *)

\* The first k objects of the chain o, o.proto(), ..., cut at an absent link
\* (halving k keeps the recursion shallow).
RECURSIVE Chain(_, _)
Chain(o, k) ==
    IF o = None \/ k = 0 THEN <<>>
    ELSE IF k = 1 THEN <<o>>
    ELSE LET h == k \div 2
             left == Chain(o, h)
         IN  IF Len(left) < h THEN left
             ELSE left \o Chain(proto[left[h]], k - h)

\* The first k ancestors of o in chain order: o.proto(), o.proto().proto(), ...
Ancestors(o, k) == Chain(proto[o], k)

\* Every object among the ancestors of o (a walk of as many steps as there
\* are objects has met them all).
AncestorSet(o) ==
    LET anc == Ancestors(o, Cardinality(Objects))
    IN  {anc[i] : i \in 1..Len(anc)}

\* The positions, among the ancestors anc, of those that own name.
OwnersIn(anc, name) == {i \in 1..Len(anc) : has_own_property(anc[i], name)}

\* The same, among the first k of them only.
OwnersWithin(anc, k, name) == {i \in OwnersIn(anc, name) : i <= k}

Least(S) == CHOOSE i \in S : \A j \in S : i <= j

-----------------------------------------------------------------------------
(* C1 *)

\* C1 as stated: get(P) on O is get_local(P, this=O) on O when O owns P,
\* else get_local(P, this=O) on the first ancestor that owns P, else
\* Undefined -- with no bound on how far the first owner is.
C1_Unbounded ==
    result.op = "get" =>
        LET O == result.this
            P == result.name
            anc == Ancestors(O, Cardinality(Objects))
            own == OwnersIn(anc, P)
        IN  result.ret =
                IF has_own_property(O, P) THEN get_local(O, P, O)
                ELSE IF own # {} THEN get_local(anc[Least(own)], P, O)
                ELSE Ok(Immediate(Undefined))

\* C1, amended: get(P) on O is get_local(P, this=O) on O when O owns P (the
\* chain is not walked); else get_local(P, this=O) on the first owner among
\* the first 255 ancestors; else the chain-depth error when a 256th ancestor
\* exists; else Undefined. Whenever get_local runs, its `this` is O.
C1_GetResolution ==
    result.op = "get" =>
        LET O == result.this
            P == result.name
            anc == Ancestors(O, MaxDepth + 1)
            own == OwnersWithin(anc, MaxDepth, P)
        IN  /\ has_own_property(O, P) =>
                /\ result.ret = get_local(O, P, O)
                /\ result.path = "own" /\ result.holder = O
            /\ ~has_own_property(O, P) =>
                /\ result.path = "search"
                /\ result.ret =
                      IF own # {} THEN get_local(anc[Least(own)], P, O)
                      ELSE IF Len(anc) > MaxDepth THEN DepthError
                      ELSE Ok(Immediate(Undefined))
                /\ result.holder = IF own # {} THEN anc[Least(own)] ELSE None
            /\ result.holder # None => result.thisArg = O

\* A get answered by an ancestor's virtual property, run with the receiver
\* as `this`, while another ancestor owns the name too.
C1_Witness ==
    /\ result.op = "get"
    /\ result.path = "search"
    /\ result.holder \notin {None, result.this}
    /\ result.ret = Ok(ResultOf(result.holder, result.this))
    /\ \E x \in AncestorSet(result.this) \ {result.holder} :
          has_own_property(x, result.name)

-----------------------------------------------------------------------------
(* C2 *)

\* The objects on the chain from O (O and its ancestors) form a chain of
\* exactly k objects whose last has no prototype.
ChainOf(O, k) == Len(Ancestors(O, k + 1)) = k - 1

\* Among O and its ancestors only the last one owns name.
OnlyRootOwns(O, name) ==
    LET anc == Ancestors(O, Cardinality(Objects))
    IN  /\ ~has_own_property(O, name)
        /\ Len(anc) > 0
        /\ OwnersIn(anc, name) = {Len(anc)}

\* C2 as stated: on a chain of 256 objects of which only the root-most owns
\* P, get(P) on the far end yields the chain-depth error.
C2_Chain256Errors ==
    (/\ result.op = "get"
     /\ ChainOf(result.this, MaxDepth + 1)
     /\ OnlyRootOwns(result.this, result.name))
    => result.ret = DepthError

\* C2, amended: on a chain of 257 objects (the queried object and its 256
\* ancestors) of which only the root-most owns P, get(P) on the far end
\* yields the chain-depth error; on a chain of 256 objects it yields the
\* root-most object's value.
C2_Chain257Errors ==
    (/\ result.op = "get"
     /\ OnlyRootOwns(result.this, result.name))
    => LET O == result.this
           root == Ancestors(O, MaxDepth + 2)[Len(Ancestors(O, MaxDepth + 2))]
       IN  /\ ChainOf(O, MaxDepth + 2) => result.ret = DepthError
           /\ ChainOf(O, MaxDepth + 1) =>
                 result.ret = get_local(root, result.name, O)

C2_Witness ==
    /\ result.op = "get"
    /\ ChainOf(result.this, MaxDepth + 2)
    /\ OnlyRootOwns(result.this, result.name)
    /\ result.ret = DepthError

-----------------------------------------------------------------------------
(* C3 *)

\* C3: when the receiver does not own P and its prototype link becomes
\* absent after at most 255 ancestors, none of which owns P, get(P) is
\* Undefined and not an error.
C3_ShortChainUndefined ==
    result.op = "get" =>
        LET O == result.this
            anc == Ancestors(O, MaxDepth + 1)
        IN  (/\ ~has_own_property(O, result.name)
             /\ Len(anc) <= MaxDepth
             /\ OwnersIn(anc, result.name) = {})
            => result.ret = Ok(Immediate(Undefined))

\* Exactly 255 ancestors, none owning the name, the last without prototype.
C3_Witness ==
    /\ result.op = "get"
    /\ ~has_own_property(result.this, result.name)
    /\ Len(Ancestors(result.this, MaxDepth + 1)) = MaxDepth
    /\ OwnersIn(Ancestors(result.this, MaxDepth + 1), result.name) = {}
    /\ result.ret = Ok(Immediate(Undefined))

-----------------------------------------------------------------------------
(* C4 *)

\* C4: every traversal of the prototype graph ends, cycles included: get(P)
\* for a name no object on the chain owns ends (with the chain-depth error
\* once 255 steps are taken, or with Undefined), and A.is_prototype_of(B)
\* for an A that is not among B's ancestors ends.
C4_TraversalsTerminate ==
    /\ (/\ pc = "search_prototype"
        /\ OwnersIn(Ancestors(frame.this, Cardinality(Objects)), frame.name) = {})
       ~> (/\ pc = "idle"
           /\ result.op = "get"
           /\ result.ret \in {DepthError, Ok(Immediate(Undefined))})
    /\ (/\ pc = "is_prototype_of"
        /\ frame.self \notin AncestorSet(frame.other))
       ~> (pc = "idle")

-----------------------------------------------------------------------------
(* C5 *)

\* C5: A.is_prototype_of(B) is true iff A's identity is that of one of B's
\* ancestors B.proto(), B.proto().proto(), ...; B itself is never tested, so
\* A.is_prototype_of(A) is true only on a prototype cycle through A, and the
\* answer is false when B has no prototype. Whenever A is among B's
\* ancestors the call ends with true.
C5_IsPrototypeOf ==
    /\ [](result.op = "is_prototype_of" =>
            result.value = (\E x \in AncestorSet(result.other) :
                                as_ptr(result.self) = as_ptr(x)))
    /\ (/\ pc = "is_prototype_of"
        /\ frame.self \in AncestorSet(frame.other))
       ~> (/\ pc = "idle"
           /\ result.op = "is_prototype_of"
           /\ result.value = TRUE)

\* A.is_prototype_of(A) answered true: A lies on a prototype cycle.
C5_Witness ==
    /\ result.op = "is_prototype_of"
    /\ result.self = result.other
    /\ result.value = TRUE
    /\ Cardinality(Objects) > 1

-----------------------------------------------------------------------------
(* C10 *)

\* C10: search_prototype returns a value only from one of the first 255
\* ancestors (depth counter 0..254); when a 256th ancestor exists and none
\* of the first 255 owns P the result is the chain-depth error, even if the
\* 256th owns P; get_local is never invoked on an ancestor past the 255th.
C10_DepthCheckFirst ==
    (result.op = "get" /\ result.path = "search") =>
        LET O == result.this
            anc == Ancestors(O, MaxDepth + 1)
        IN  /\ result.holder # None =>
                /\ result.depth \in 0..(MaxDepth - 1)
                /\ result.holder = anc[result.depth + 1]
            /\ (/\ Len(anc) = MaxDepth + 1
                /\ OwnersWithin(anc, MaxDepth, result.name) = {})
               => (result.ret = DepthError /\ result.holder = None)

\* The 256th ancestor owns the name, none of the first 255 does: the error.
C10_Witness ==
    /\ result.op = "get"
    /\ result.path = "search"
    /\ Len(Ancestors(result.this, MaxDepth + 1)) = MaxDepth + 1
    /\ OwnersIn(Ancestors(result.this, MaxDepth + 1), result.name) = {MaxDepth + 1}
    /\ result.ret = DepthError

-----------------------------------------------------------------------------
(* C6 *)

Named(i) == slots[Self][IndexName(i)]

-----------------------------------------------------------------------------
(* C7 *)

\* What a step of delete_array_element(i) leaves alone in any case: the
\* length and every other index of array storage.
DeleteFrame(i) ==
    /\ length' = length
    /\ i \notin DOMAIN array'
    /\ \A k \in 0..MaxLen : k # i =>
          /\ (k \in DOMAIN array') = (k \in DOMAIN array)
          /\ k \in DOMAIN array => array'[k] = array[k]

-----------------------------------------------------------------------------
(* C8 *)

\* C8: set_array_element(i, v) on an object of length L: when i >= L the
\* length becomes i + 1 and every index of [L, i) holds Undefined in array
\* storage and in named-property storage; when i < L the length stays L;
\* either way element i becomes v, the other indices below L are unchanged
\* and the number returned is the length after the call.
C8_SetArrayElement ==
    [][\A i \in 0..MaxLen, v \in ArrayValues :
         (/\ result'.op = "set_array_element"
          /\ result'.index = i /\ result'.value = v) =>
            /\ length' = IF i >= length THEN i + 1 ELSE length
            /\ \A k \in length..(i - 1) :
                  /\ k \in DOMAIN array' /\ array'[k] = Undefined
                  /\ has_own_property(Self, IndexName(k))'
                  /\ Named(k)' = Stored(Undefined, {})
            /\ i \in DOMAIN array' /\ array'[i] = v
            /\ has_own_property(Self, IndexName(i))'
            /\ Named(i)' = Stored(v, {})
            /\ \A k \in 0..(length - 1) : k # i =>
                  /\ (k \in DOMAIN array') = (k \in DOMAIN array)
                  /\ k \in DOMAIN array => array'[k] = array[k]
                  /\ Named(k)' = Named(k)
            /\ result'.ret = length']_vars

\* An element written two or more places past the end of a non-empty array.
C8_Witness ==
    /\ result.op = "set_array_element"
    /\ result.old > 0
    /\ result.index > result.old
    /\ result.ret = result.index + 1
    /\ length = result.index + 1
    /\ array[result.index] = result.value
    /\ result.value # Undefined
    /\ array[result.old] = Undefined
    /\ Named(result.old) = Stored(Undefined, {})

-----------------------------------------------------------------------------
(* C9 *)

\* C9: delete(name) yields a boolean, never an error: false when the
\* property is absent or Permanent, and then the object is unchanged, so a
\* Permanent property is still owned and reads as before; the own property
\* is removed (and true returned) only when it is there and not Permanent.
C9_Delete ==
    [][\A name \in Names :
         (result'.op = "delete" /\ result'.name = name) =>
            LET there == has_own_property(Self, name)
                permanent == there /\ Permanent \in slots[Self][name].attributes
            IN  /\ result'.ret \in BOOLEAN
                /\ result'.ret = (there /\ ~permanent)
                /\ (~there \/ permanent) => slots' = slots
                /\ permanent =>
                      /\ has_own_property(Self, name)'
                      /\ get_local(Self, name, Self)' = get_local(Self, name, Self)
                /\ (there /\ ~permanent) =>
                      slots'[Self] = Remove(slots[Self], {name})]_vars

\* delete refused on a Permanent property, which is still there.
C9_Witness ==
    /\ result.op = "delete"
    /\ result.ret = FALSE
    /\ has_own_property(Self, result.name)
    /\ Permanent \in slots[Self][result.name].attributes

====
